---- MODULE Spec2Model ----
(***************************************************************************)
(* A model of the TgMessage notification relay: the GitHub webhook handler *)
(* (functions/githubWebhook.js), the Telegram bot-update handler and the    *)
(* webhook-registration handler.  Every handler is a linear pipeline with   *)
(* at most one awaited call to the Telegram Bot API; the await is the only  *)
(* point where a handler is suspended, so each handler is one action up to  *)
(* the await and one action for the return of the call.                     *)
(*                                                                          *)
(* Conventions.  A JSON field or header that may be missing is a sequence   *)
(* of length at most one (<<>> is undefined/null).  An environment variable *)
(* or identifier that may be unset is a natural number, 0 meaning unset.    *)
(* A text is a sequence of parts, each part a sequence of strings; the      *)
(* empty text '' is <<>>.  A function that can throw returns a record with  *)
(* a field threw.                                                           *)
(***************************************************************************)
EXTENDS Integers, Sequences, FiniteSets, TLC

\* Bounds of the model.
MaxChat == 2
MaxDeliveries == 2
MaxRefLen == 3

\* String.prototype.substring(0, 100) in formatPushMessage.
CommitLimit == 100

VARIABLES env, req, pc, chatId, message, sent, codec, response,
          deliveries, attempts

vars == <<env, req, pc, chatId, message, sent, codec, response,
          deliveries, attempts>>

Chats == 1..MaxChat

Undefined == <<>>

Min(a, b) == IF a < b THEN a ELSE b

(***************************************************************************)
(* Token codec of bot.js (encryption / decryption): a keyed encoding of a  *)
(* chat id with an integrity tag.  The token is a number (0 is no token);  *)
(* its high digit is the chat id shifted by the key, its low digit the tag.*)
(***************************************************************************)
SignKey == 3
CodecModulus == 7

tag(c, k) == (c * c + k + 1) % CodecModulus

encryption(c) ==
    1 + ((c + SignKey) % CodecModulus) * CodecModulus + tag(c, SignKey)

decryption(t) ==
    LET cipher == (t - 1) \div CodecModulus
        mac    == (t - 1) % CodecModulus
        c      == (cipher - SignKey) % CodecModulus
    IN  IF t >= 1 /\ cipher < CodecModulus /\ mac = tag(c, SignKey)
        THEN [threw |-> FALSE, value |-> c]
        ELSE [threw |-> TRUE, value |-> 0]

\* A token whose integrity tag was altered.
forged(t) == IF (t - 1) % CodecModulus = 0 THEN t + 1 ELSE t - 1

(***************************************************************************)
(* Signature: 'sha256=' + hmac.update(body).digest('hex').  The HMAC is a   *)
(* symbolic term over the secret and the raw body (a collision-free MAC).   *)
(***************************************************************************)
createHmac(secret, body) == [key |-> secret, msg |-> body]

digest(secret, body) == [prefix |-> "sha256=", hex |-> createHmac(secret, body)]

(***************************************************************************)
(* String.prototype.replace(pattern, '') with a string pattern: the first  *)
(* occurrence of the pattern, wherever it is, is removed.                   *)
(***************************************************************************)
RefsHeads == <<"refs/", "heads/">>

indexOf(s, p) ==
    LET hits == {i \in 1..(Len(s) - Len(p) + 1) : SubSeq(s, i, i + Len(p) - 1) = p}
    IN  IF hits = {} THEN 0 ELSE CHOOSE i \in hits : \A j \in hits : i <= j

replace(s, p) ==
    LET i == indexOf(s, p)
    IN  IF i = 0 THEN s
        ELSE SubSeq(s, 1, i - 1) \o SubSeq(s, i + Len(p), Len(s))

startsWith(s, p) == Len(s) >= Len(p) /\ SubSeq(s, 1, Len(p)) = p

(***************************************************************************)
(* Message formatters.                                                      *)
(***************************************************************************)
Text(parts) == [threw |-> FALSE, text |-> parts]
TypeError == [threw |-> TRUE, text |-> <<>>]

\* `${action}` in a template literal: undefined prints as 'undefined'.
actionString(action) == IF action = Undefined THEN "undefined" ELSE action[1]

pullRequestActionText(action, pull_request) ==
    IF action = <<"opened">> THEN <<"created a new">>
    ELSE IF action = <<"closed">>
         THEN (IF pull_request.merged THEN <<"merged">> ELSE <<"closed">>)
    ELSE IF action = <<"reopened">> THEN <<"reopened">>
    ELSE IF action = <<"edited">> THEN <<"edited">>
    ELSE <<"updated(", actionString(action), ")">>

formatPullRequestMessage(data) ==
    IF data.pull_request = Undefined \/ data.repository = Undefined THEN Text(<<>>)
    ELSE IF data.sender = Undefined THEN TypeError
    ELSE Text(<< <<"<b>GitHub PR</b>">>,
                 <<data.pull_request[1].html_url>>,
                 <<data.repository[1].full_name, "#", data.pull_request[1].number>>,
                 <<data.sender[1].login>>,
                 pullRequestActionText(data.action, data.pull_request[1]),
                 <<"Pull Request:", data.pull_request[1].title>> >>)

commitExcerpt(len) ==
    <<"commit[0..", ToString(Min(len, CommitLimit)), ")">>
        \o (IF len > CommitLimit THEN <<"...">> ELSE <<>>)

formatPushMessage(data) ==
    IF data.repository = Undefined \/ data.head_commit = Undefined THEN Text(<<>>)
    ELSE IF data.ref = Undefined THEN TypeError
    ELSE IF data.sender = Undefined THEN TypeError
    ELSE IF data.head_commit[1].message = Undefined THEN TypeError
    ELSE Text(<< <<"<b>GitHub Push</b>">>,
                 <<data.repository[1].html_url>>,
                 <<data.repository[1].full_name>>,
                 <<data.sender[1].login>>,
                 replace(data.ref[1], RefsHeads),
                 commitExcerpt(data.head_commit[1].message[1]) >>)

issuesActionText(action) ==
    IF action = <<"opened">> THEN <<"created a new">>
    ELSE IF action = <<"closed">> THEN <<"closed">>
    ELSE IF action = <<"reopened">> THEN <<"reopened">>
    ELSE IF action = <<"edited">> THEN <<"edited">>
    ELSE <<"updated(", actionString(action), ")">>

\* Mutation: the issue is read before it is checked to be there.
formatIssuesMessageUnguarded(data) ==
    IF data.repository = Undefined THEN Text(<<>>)
    ELSE IF data.issue = Undefined \/ data.sender = Undefined THEN TypeError
    ELSE Text(<< <<"<b>GitHub Issue</b>">>,
                 <<data.issue[1].html_url>>,
                 <<data.repository[1].full_name, "#", data.issue[1].number>>,
                 <<data.sender[1].login>>,
                 issuesActionText(data.action),
                 <<"Issue:", data.issue[1].title>> >>)

formatIssuesMessage(data) ==
    IF data.issue = Undefined \/ data.repository = Undefined THEN Text(<<>>)
    ELSE IF data.sender = Undefined THEN TypeError
    ELSE Text(<< <<"<b>GitHub Issue</b>">>,
                 <<data.issue[1].html_url>>,
                 <<data.repository[1].full_name, "#", data.issue[1].number>>,
                 <<data.sender[1].login>>,
                 issuesActionText(data.action),
                 <<"Issue:", data.issue[1].title>> >>)

releaseActionText(action) ==
    IF action = <<"published">> THEN <<"published a new">>
    ELSE <<"updated(", actionString(action), ")">>

formatReleaseMessage(data) ==
    IF data.release = Undefined \/ data.repository = Undefined THEN Text(<<>>)
    ELSE IF data.sender = Undefined THEN TypeError
    ELSE Text(<< <<"<b>GitHub Release</b>">>,
                 <<data.release[1].html_url>>,
                 <<data.repository[1].full_name>>,
                 <<data.sender[1].login>>,
                 releaseActionText(data.action),
                 <<"Release:", IF data.release[1].name # "" THEN data.release[1].name
                               ELSE data.release[1].tag_name>> >>)

\* The switch on the event type.
formatMessage(eventType, data) ==
    IF eventType = "pull_request" THEN formatPullRequestMessage(data)
    ELSE IF eventType = "push" THEN formatPushMessage(data)
    ELSE IF eventType = "issues" THEN formatIssuesMessage(data)
    ELSE IF eventType = "release" THEN formatReleaseMessage(data)
    ELSE Text(<< <<"GitHub event:", eventType>> >>)

(***************************************************************************)
(* Inputs: environments and requests.                                       *)
(***************************************************************************)
\* env.token (bot token), env.default_chat_id, env.github_webhook_secret and
\* env.key (the register key, always set to 1 here); 0 is an unset variable.
Envs == [token : {0, 1}, default_chat_id : {0, 1}, github_webhook_secret : {0, 1},
         key : {1}]

PullRequest == [title |-> "T", number |-> "7", html_url |-> "h", merged |-> TRUE]
Issue == [title |-> "T", number |-> "7", html_url |-> "h"]
Release == [tag_name |-> "v1", name |-> "", html_url |-> "h"]
Repository == [full_name |-> "a/b", html_url |-> "u"]
Sender == [login |-> "alice"]
HeadCommits == {[message |-> <<150>>, url |-> "c"], [message |-> Undefined, url |-> "c"]}
MainRef == <<"refs/", "heads/", "main">>

\* A payload carries at most one subject (pull_request, issue, release, head_commit).
NoSubject == [pull_request |-> Undefined, issue |-> Undefined, release |-> Undefined,
              head_commit |-> Undefined]
Subjects ==
    {NoSubject,
     [NoSubject EXCEPT !.pull_request = <<PullRequest>>],
     [NoSubject EXCEPT !.issue = <<Issue>>],
     [NoSubject EXCEPT !.release = <<Release>>]}
    \cup {[NoSubject EXCEPT !.head_commit = <<h>>] : h \in HeadCommits}

Payload(s, a, rp, sd, rf) ==
    [action |-> a, pull_request |-> s.pull_request, issue |-> s.issue,
     release |-> s.release, head_commit |-> s.head_commit,
     repository |-> rp, sender |-> sd, ref |-> rf]

Payloads ==
    {Payload(s, a, rp, sd, rf) :
        s \in Subjects, a \in {Undefined, <<"closed">>},
        rp \in {Undefined, <<Repository>>}, sd \in {Undefined, <<Sender>>},
        rf \in {Undefined, <<MainRef>>}}

EmptyPayload == Payload(NoSubject, Undefined, Undefined, Undefined, Undefined)

\* A request body: the raw text, which JSON.parse turns into body.data or rejects.
InvalidBody == [valid |-> FALSE, data |-> EmptyPayload]
Bodies == {InvalidBody} \cup {[valid |-> TRUE, data |-> p] : p \in Payloads}

\* X-Hub-Signature-256: missing, right, made with another secret, made for another body.
Signatures(body) ==
    {Undefined, <<digest(1, body)>>, <<digest(2, body)>>, <<digest(1, InvalidBody)>>}

EventTypes == {"", "pull_request", "push", "issues", "release", "ping"}

\* ?token= : missing, a token this codec made, a token with an altered tag.
Tokens == {0, forged(encryption(1))} \cup {encryption(c) : c \in Chats}

GithubRequest(m, e, sg, b, t) ==
    [endpoint |-> "githubWebhook", method |-> m, eventType |-> e, signature |-> sg,
     body |-> b, token |-> t]

GithubRequests ==
    {GithubRequest("GET", "", Undefined, InvalidBody, 0)}
    \cup UNION {{GithubRequest("POST", e, sg, b, t) : sg \in Signatures(b)} :
                    e \in EventTypes, b \in Bodies, t \in Tokens}

\* The outcomes of a call to the Telegram Bot API (bot.sendMessage, bot.setWebHook).
Returns ==
    {[threw |-> FALSE, ok |-> TRUE, description |-> ""],
     [threw |-> FALSE, ok |-> FALSE, description |-> "Bad Request: chat not found"],
     [threw |-> FALSE, ok |-> FALSE, description |-> "Forbidden: bot was blocked"],
     [threw |-> TRUE, ok |-> FALSE, description |-> ""]}

(***************************************************************************)
(* Responses and outbound calls.                                            *)
(***************************************************************************)
Response(status, msg) == [status |-> status, message |-> msg]
NoResponse == Response(0, <<>>)
ServerError == Response(500, <<"Server error">>)

Call(api, target, text, mode, url) ==
    [api |-> api, chat_id |-> target, text |-> text, parse_mode |-> mode,
     url |-> url, ret |-> Undefined]

\* What a handler did before it returned or reached its await.
\* codec lists the calls made to the token codec, in order.
Reply(resp, target, calls) ==
    [await |-> FALSE, response |-> resp, chatId |-> target, message |-> <<>>,
     codec |-> calls]
Await(target, text, calls) ==
    [await |-> TRUE, response |-> NoResponse, chatId |-> target, message |-> text,
     codec |-> calls]
CodecCall(op, arg) == [op |-> op, arg |-> arg]

(***************************************************************************)
(* functions/githubWebhook.js : onRequest                                   *)
(***************************************************************************)
\* Mutation: the check for a configured secret is left out.
invalidSignatureWithoutSecret(r) ==
    /\ r.signature # Undefined
    /\ r.signature[1] # digest(env.github_webhook_secret, r.body)

invalidSignature(r) ==
    /\ env.github_webhook_secret # 0
    /\ r.signature # Undefined
    /\ r.signature[1] # digest(env.github_webhook_secret, r.body)

\* Mutation: the token parameter is tried before the default chat id.
resolveChatIdTokenFirst(r) ==
    LET d == decryption(r.token)
    IN  IF r.token # 0 /\ ~d.threw
        THEN [chatId |-> d.value, codec |-> <<CodecCall("decryption", r.token)>>]
        ELSE [chatId |-> env.default_chat_id,
              codec |-> IF r.token # 0 THEN <<CodecCall("decryption", r.token)>>
                        ELSE <<>>]

\* Mutation: a token that fails to decode still yields the chat id it carries.
resolveChatIdUnchecked(r) ==
    IF env.default_chat_id # 0
    THEN [chatId |-> env.default_chat_id, codec |-> <<>>]
    ELSE IF r.token = 0 THEN [chatId |-> 0, codec |-> <<>>]
    ELSE [chatId |-> (((r.token - 1) \div CodecModulus) - SignKey) % CodecModulus,
          codec |-> <<CodecCall("decryption", r.token)>>]

resolveChatId(r) ==
    IF env.default_chat_id # 0
    THEN [chatId |-> env.default_chat_id, codec |-> <<>>]
    ELSE IF r.token = 0 THEN [chatId |-> 0, codec |-> <<>>]
    ELSE LET d == decryption(r.token)
         IN  [chatId |-> IF d.threw THEN 0 ELSE d.value,
              codec |-> <<CodecCall("decryption", r.token)>>]

\* Mutation: a failed send is reported as a server error.
sendMessageResponseServerError(ret) ==
    IF ret.ok THEN Response(200, <<"Notification sent successfully">>)
    ELSE ServerError

sendMessageResponse(ret) ==
    IF ret.ok THEN Response(200, <<"Notification sent successfully">>)
    ELSE Response(422, <<ret.description>>)

githubWebhook(r) ==
    IF r.method # "POST" THEN Reply(Response(405, <<"Please use POST method">>), 0, <<>>)
    ELSE IF r.eventType = ""
    THEN Reply(Response(400, <<"Missing X-GitHub-Event header">>), 0, <<>>)
    ELSE IF invalidSignature(r) THEN Reply(Response(401, <<"Invalid signature">>), 0, <<>>)
    ELSE IF ~r.body.valid THEN Reply(ServerError, 0, <<>>)
    ELSE LET target == resolveChatId(r)
         IN  IF target.chatId = 0
             THEN Reply(Response(422, <<"No valid chat_id provided">>), 0,
                        target.codec)
             ELSE LET m == formatMessage(r.eventType, r.body.data)
                  IN  IF m.threw
                      THEN Reply(ServerError, target.chatId, target.codec)
                      ELSE IF Len(m.text) > 0
                      THEN Await(target.chatId, m.text, target.codec)
                      ELSE Reply(Response(200, <<"No message to send">>),
                                 target.chatId, target.codec)

\* The handler runs `run` on request r: up to its response, or up to the await of
\* the one call it makes.  sent holds the calls of this delivery to the Bot API, each
\* with what it returned (<<>> while it is pending).
Handle(r, run, api, mode, url) ==
    /\ req' = r
    /\ deliveries' = deliveries + 1
    /\ chatId' = run.chatId
    /\ message' = run.message
    /\ codec' = run.codec
    /\ response' = run.response
    /\ IF run.await
       THEN /\ pc' = api
            /\ sent' = <<Call(api, run.chatId, run.message, mode, url)>>
            /\ attempts' = attempts + 1
       ELSE /\ pc' = "done"
            /\ sent' = <<>>
            /\ attempts' = attempts
    /\ UNCHANGED env

\* The awaited call returns ret and the handler answers resp.
Return(ret, resp) ==
    /\ pc' = "done"
    /\ sent' = <<[sent[1] EXCEPT !.ret = <<ret>>]>>
    /\ response' = resp
    /\ UNCHANGED <<env, req, chatId, message, codec, deliveries, attempts>>

GithubWebhook ==
    /\ pc = "idle"
    /\ \E r \in (IF deliveries = 0 THEN GithubRequests ELSE {req}) :
          /\ r.endpoint = "githubWebhook"
          /\ Handle(r, githubWebhook(r), "sendMessage", "HTML", <<>>)

\* Mutation: a failed send is tried again.
SendMessageRetries ==
    /\ pc = "sendMessage"
    /\ req.endpoint = "githubWebhook"
    /\ \E ret \in Returns :
          IF ~ret.threw /\ ~ret.ok /\ Len(sent) = 1
          THEN /\ sent' = <<[sent[1] EXCEPT !.ret = <<ret>>],
                            Call("sendMessage", chatId, message, "HTML", <<>>)>>
               /\ attempts' = attempts + 1
               /\ UNCHANGED <<env, req, pc, chatId, message, codec, response, deliveries>>
          ELSE Return(ret, IF ret.threw THEN ServerError ELSE sendMessageResponse(ret))

SendMessageReturns ==
    /\ pc = "sendMessage"
    /\ req.endpoint = "githubWebhook"
    /\ \E ret \in Returns :
          Return(ret, IF ret.threw THEN ServerError ELSE sendMessageResponse(ret))

(***************************************************************************)
(* The bot-update handler (POST, Telegram updates) : onRequest              *)
(***************************************************************************)
\* data.message?.text ?? ''
messageText(data) ==
    IF data.message = Undefined THEN ""
    ELSE IF data.message[1].text = Undefined THEN ""
    ELSE data.message[1].text[1]

\* data.message?.chat?.id
messageChatId(data) ==
    IF data.message = Undefined THEN 0
    ELSE IF data.message[1].chat = Undefined THEN 0
    ELSE data.message[1].chat[1].id

\* Mutation: the command is matched by its prefix.
isTokenCommandPrefix(text) == text \in {"/token", "/token now"}

isTokenCommand(text) == text = "/token"

tokenText(token) == << <<"Your token:">>, <<ToString(token)>>, <<"Keep this token.">> >>

tokenMessageResponse(ret) ==
    IF ret.threw THEN Response(500, <<"Error:", "send failed">>)
    ELSE IF ~ret.ok THEN Response(500, <<"Failed to send message:", ret.description>>)
    ELSE Response(200, <<"success">>)

botWebhook(r) ==
    IF r.method # "POST" THEN Reply(Response(405, <<"Please use POST method">>), 0, <<>>)
    ELSE IF ~r.body.valid THEN Reply(Response(500, <<"Server error:", "bad JSON">>), 0, <<>>)
    ELSE LET chat_id == messageChatId(r.body.data)
         IN  IF chat_id = 0 THEN Reply(Response(400, <<"No chat_id found">>), 0, <<>>)
             ELSE IF env.token = 0
             THEN Reply(Response(500, <<"Bot token not configured">>), chat_id, <<>>)
             ELSE IF isTokenCommand(messageText(r.body.data))
             THEN Await(chat_id, tokenText(encryption(chat_id)),
                        <<CodecCall("encryption", chat_id)>>)
             ELSE Reply(Response(200, <<"success">>), chat_id, <<>>)

BotMessages ==
    {Undefined}
    \cup {<<[text |-> t, chat |-> c]>> :
            t \in {Undefined, <<"/token">>, <<"/start">>, <<"/token now">>},
            c \in {Undefined} \cup {<<[id |-> i]>> : i \in Chats}}

BotRequests ==
    {[endpoint |-> "webhook", method |-> m, body |-> b] :
        m \in {"GET", "POST"},
        b \in {[valid |-> FALSE, data |-> [message |-> Undefined]]}
              \cup {[valid |-> TRUE, data |-> [message |-> msg]] : msg \in BotMessages}}

BotWebhook ==
    /\ pc = "idle"
    /\ \E r \in (IF deliveries = 0 THEN BotRequests ELSE {req}) :
          /\ r.endpoint = "webhook"
          /\ Handle(r, botWebhook(r), "sendMessage", "", <<>>)

TokenMessageReturns ==
    /\ pc = "sendMessage"
    /\ req.endpoint = "webhook"
    /\ \E ret \in Returns : Return(ret, tokenMessageResponse(ret))

(***************************************************************************)
(* The register handler (sets the Telegram webhook) : onRequest             *)
(***************************************************************************)
includes(s, p) == indexOf(s, p) # 0

webhookUrl(r) ==
    LET isVercel == includes(r.hostname, <<"vercel.app">>)
                        \/ includes(r.hostname, <<"vercel.com">>)
        webhookPath == IF isVercel THEN "/api/webhook" ELSE "/webhook"
    IN  IF r.url # Undefined THEN r.url
        ELSE <<"https://">> \o r.hostname \o <<webhookPath>>

setWebHookResponse(ret, url) ==
    IF ret.ok THEN Response(200, <<"Webhook set to">> \o url)
    ELSE Response(422, <<ret.description>>)

\* An exception of bot.setWebHook is not caught: the host answers for the handler.
Unhandled == Response(500, <<"unhandled exception">>)

register(r) ==
    IF r.key # env.key THEN Reply(Response(401, <<"unauthorized">>), 0, <<>>)
    ELSE Await(0, <<>>, <<>>)

RegisterRequests ==
    {[endpoint |-> "register", key |-> k, url |-> u, hostname |-> h] :
        k \in {0, 1, 2}, u \in {Undefined, <<"https://example.org/hook">>},
        h \in {<<"relay.", "vercel.app">>, <<"relay.", "edgeone.app">>}}

Register ==
    /\ pc = "idle"
    /\ \E r \in (IF deliveries = 0 THEN RegisterRequests ELSE {req}) :
          /\ r.endpoint = "register"
          /\ Handle(r, register(r), "setWebHook", "", webhookUrl(r))

SetWebHookReturns ==
    /\ pc = "setWebHook"
    /\ \E ret \in Returns :
          Return(ret, IF ret.threw THEN Unhandled
                      ELSE setWebHookResponse(ret, sent[1].url))

\* The platform delivers the same request again to the stateless handler.
Redeliver ==
    /\ pc = "done"
    /\ deliveries < MaxDeliveries
    /\ pc' = "idle"
    /\ response' = NoResponse
    /\ sent' = <<>>
    /\ chatId' = 0
    /\ message' = <<>>
    /\ codec' = <<>>
    /\ UNCHANGED <<env, req, deliveries, attempts>>

NoRequest == [endpoint |-> "none"]

Init ==
    /\ env \in Envs
    /\ req = NoRequest
    /\ pc = "idle"
    /\ chatId = 0
    /\ message = <<>>
    /\ sent = <<>>
    /\ codec = <<>>
    /\ response = NoResponse
    /\ deliveries = 0
    /\ attempts = 0

Next ==
    \/ GithubWebhook
    \/ SendMessageReturns
    \/ BotWebhook
    \/ TokenMessageReturns
    \/ Register
    \/ SetWebHookReturns
    \/ Redeliver

Spec == Init /\ [][Next]_vars

(***************************************************************************)
(* Push notifications over every ref: the webhook handler on push requests  *)
(* that pass every check, for all refs of at most MaxRefLen parts.          *)
(***************************************************************************)
RefParts == {"refs/", "heads/", "tags/", "main"}

Refs == UNION {[1..n -> RefParts] : n \in 0..MaxRefLen}

PushRequest(ref) ==
    GithubRequest("POST", "push", Undefined,
                  [valid |-> TRUE,
                   data |-> Payload([NoSubject EXCEPT
                                        !.head_commit = <<[message |-> <<150>>, url |-> "c"]>>],
                                    Undefined, <<Repository>>, <<Sender>>, <<ref>>)],
                  encryption(1))

GithubPush ==
    /\ pc = "idle"
    /\ deliveries = 0
    /\ \E ref \in Refs :
          Handle(PushRequest(ref), githubWebhook(PushRequest(ref)), "sendMessage",
                 "HTML", <<>>)

PushNext ==
    \/ GithubPush
    \/ SendMessageReturns

PushSpec == Init /\ [][PushNext]_vars

(***************************************************************************)
(* Properties.                                                              *)
(***************************************************************************)
\* The request of the state is one the named handler has taken up.
Github == pc # "idle" /\ req.endpoint = "githubWebhook"
BotUpdate == pc # "idle" /\ req.endpoint = "webhook"
Registering == pc # "idle" /\ req.endpoint = "register"

\* A bot update that is a POST with a chat id, the bot token being configured.
BotUpdateAccepted ==
    /\ BotUpdate
    /\ req.method = "POST"
    /\ req.body.valid
    /\ req.body.data.message # Undefined
    /\ req.body.data.message[1].chat # Undefined
    /\ env.token # 0

\* The X-Hub-Signature-256 header is there, a secret is configured, and the header
\* is not 'sha256=' followed by the HMAC of the raw body under the secret.
SignatureMismatch ==
    /\ env.github_webhook_secret # 0
    /\ req.signature # Undefined
    /\ \/ req.signature[1].prefix # "sha256="
       \/ req.signature[1].hex # [key |-> env.github_webhook_secret, msg |-> req.body]

\* A webhook request that passed the method, event-header and signature checks
\* and whose body is JSON.
Validated ==
    /\ Github
    /\ req.method = "POST"
    /\ req.eventType # ""
    /\ ~SignatureMismatch
    /\ req.body.valid

TokenOf(c) == encryption(c)
TokenDecodes == \E c \in Chats : req.token = TokenOf(c)

\* ... and for which a chat target exists.
Targeted == Validated /\ (env.default_chat_id # 0 \/ TokenDecodes)

Has(field) == req.body.data[field] # Undefined

\* The two required fields of the event type are there.
RequiredPresent ==
    /\ Has("repository")
    /\ \/ req.eventType = "pull_request" /\ Has("pull_request")
       \/ req.eventType = "push" /\ Has("head_commit")
       \/ req.eventType = "issues" /\ Has("issue")
       \/ req.eventType = "release" /\ Has("release")

FourTypes == {"pull_request", "push", "issues", "release"}

\* C1: every POST bot update with a chat id, the bot token being configured, is
\* answered 200, whatever the outcome of encoding and sending.
BotUpdateAlways200 ==
    (BotUpdateAccepted /\ pc = "done") => response.status = 200

\* C2 as claimed: without a default chat id, a token parameter that the codec fails
\* to decode is answered 401 and nothing is sent.
UndecodableTokenIs401 ==
    (Validated /\ env.default_chat_id = 0 /\ req.token # 0 /\ ~TokenDecodes)
        => (pc = "done" /\ response.status = 401 /\ sent = <<>>)

\* C2 amended: without a default chat id, a token parameter that the codec fails to
\* decode is answered 422 'No valid chat_id provided' and nothing is sent.
UndecodableTokenIs422 ==
    (Validated /\ env.default_chat_id = 0 /\ req.token # 0 /\ ~TokenDecodes)
        => /\ pc = "done"
           /\ response = Response(422, <<"No valid chat_id provided">>)
           /\ sent = <<>>
           /\ attempts = 0

UndecodableTokenSeen ==
    /\ Validated /\ env.default_chat_id = 0 /\ req.token # 0 /\ ~TokenDecodes
    /\ codec = <<CodecCall("decryption", req.token)>>
    /\ req.eventType = "ping"

\* C3: a POST with an event header is answered 401 exactly when a secret is
\* configured, the signature header is present and it differs from the digest; the
\* handler then has resolved no target, formatted nothing and sent nothing.
SignatureGate ==
    (Github /\ req.method = "POST" /\ req.eventType # "")
        => /\ (response.status = 401) <=> SignatureMismatch
           /\ SignatureMismatch
                 => /\ pc = "done"
                    /\ chatId = 0 /\ codec = <<>> /\ message = <<>> /\ sent = <<>>
                    /\ attempts = 0

SignatureRejected ==
    /\ Github /\ pc = "done" /\ response.status = 401
    /\ env.default_chat_id # 0 /\ req.body.valid /\ req.eventType = "ping"

\* C4: a configured default chat id is the target and the token is never decoded;
\* without a default the target is the chat id the token encodes; without a default
\* and without a token the answer is 422 and nothing is sent.
TargetPriority ==
    Validated
        => /\ env.default_chat_id # 0
                 => /\ chatId = env.default_chat_id
                    /\ codec = <<>>
                    /\ sent # <<>> => sent[1].chat_id = env.default_chat_id
           /\ env.default_chat_id = 0
                 => \A c \in Chats :
                       req.token = TokenOf(c)
                           => /\ chatId = c
                              /\ sent # <<>> => sent[1].chat_id = c
           /\ (env.default_chat_id = 0 /\ req.token = 0)
                 => /\ pc = "done"
                    /\ response.status = 422
                    /\ sent = <<>>
                    /\ attempts = 0

DefaultBeatsToken ==
    /\ Validated /\ env.default_chat_id # 0
    /\ \E c \in Chats : c # env.default_chat_id /\ req.token = TokenOf(c)
    /\ pc = "done" /\ Len(sent) = 1

\* C5: a webhook delivery makes at most one sendMessage call; a request that passes
\* the checks and formats a non-empty message makes exactly one, answered only after
\* the call returned; n deliveries of it make n calls.
OneSendPerDelivery ==
    /\ Len(sent) <= 1
    /\ attempts <= deliveries
    /\ Github
        => /\ (pc = "sendMessage") => (response = NoResponse /\ Len(sent) = 1)
           /\ (response # NoResponse /\ sent # <<>>) => sent[1].ret # Undefined
           /\ (Targeted /\ (req.eventType \notin FourTypes \/ RequiredPresent)
                  /\ Len(message) > 0)
                 => /\ Len(sent) = 1
                    /\ sent[1].api = "sendMessage"
                    /\ attempts = deliveries

SecondDeliveryAfterFailure ==
    /\ Github /\ pc = "done" /\ deliveries = 2 /\ attempts = 2
    /\ sent # <<>> /\ sent[1].ret # Undefined /\ ~sent[1].ret[1].ok

\* C6: in the webhook handler and in the register handler, ok:false of the call is
\* answered 422 with the upstream description, ok:true is answered 200.
UpstreamFailureIs422 ==
    ((Github \/ Registering) /\ pc = "done" /\ sent # <<>> /\ ~sent[1].ret[1].threw)
        => IF sent[1].ret[1].ok
           THEN response.status = 200
           ELSE response = Response(422, <<sent[1].ret[1].description>>)

UpstreamFailureSeen ==
    /\ Registering /\ pc = "done" /\ sent # <<>>
    /\ ~sent[1].ret[1].threw /\ ~sent[1].ret[1].ok

\* C7: with a chat target, an event of the four types lacking a required field
\* formats nothing, sends nothing and is answered 200 'No message to send'; an event
\* of any other type formats a message and sends it once.
EmptyMessageShortCircuits ==
    Targeted
        => /\ (req.eventType \in FourTypes /\ ~RequiredPresent)
                 => /\ pc = "done"
                    /\ message = <<>>
                    /\ sent = <<>>
                    /\ attempts = 0
                    /\ response = Response(200, <<"No message to send">>)
           /\ req.eventType \notin FourTypes
                 => /\ Len(message) > 0
                    /\ Len(sent) = 1
                    /\ sent[1].text = message

MissingFieldSeen ==
    /\ Targeted /\ req.eventType = "issues" /\ Has("repository") /\ ~Has("issue")
    /\ Has("sender") /\ pc = "done"

\* C8: the branch of a push notification is the ref without a leading
\* 'refs/heads/', and the ref unchanged when it does not start with 'refs/heads/'.
BranchStripsPrefixOnly ==
    (Github /\ req.eventType = "push" /\ Len(message) > 0)
        => LET ref == req.body.data.ref[1]
           IN  message[5] = IF startsWith(ref, RefsHeads)
                            THEN SubSeq(ref, Len(RefsHeads) + 1, Len(ref))
                            ELSE ref

\* C9: the bot-update handler calls sendMessage exactly when the text is '/token'
\* (chat id and bot token present): once, to the chat of the inbound message, with
\* the token of that chat; any other text encodes nothing, sends nothing and is
\* answered 200.
TokenCommandOnly ==
    BotUpdate
        => LET msg == req.body.data.message
               isToken == BotUpdateAccepted /\ msg[1].text = <<"/token">>
           IN  /\ (sent # <<>>) <=> isToken
               /\ (codec # <<>>) <=> isToken
               /\ isToken
                     => /\ Len(sent) = 1
                        /\ sent[1].api = "sendMessage"
                        /\ sent[1].chat_id = msg[1].chat[1].id
                        /\ sent[1].text[2] = <<ToString(TokenOf(msg[1].chat[1].id))>>
                        /\ codec = <<CodecCall("encryption", msg[1].chat[1].id)>>
                        /\ attempts = deliveries
               /\ (BotUpdateAccepted /\ ~isToken)
                     => (pc = "done" /\ response.status = 200 /\ attempts = 0)

TokenSent ==
    /\ BotUpdateAccepted /\ req.body.data.message[1].text = <<"/token">>
    /\ pc = "done" /\ response.status = 200 /\ chatId = MaxChat

\* C10: an event of the four types with both required fields present always formats
\* a message and attempts delivery, whatever other field is missing.
RequiredFieldsSuffice ==
    (Targeted /\ req.eventType \in FourTypes /\ RequiredPresent)
        => /\ Len(message) > 0
           /\ Len(sent) = 1
           /\ response # ServerError

====
